---------------------------- MODULE Spec2Model ----------------------------
(***************************************************************************)
(* Data-Analytics-Portfolio: the DiviTrack dividend auditor                *)
(* (01_DiviTrack_Dividend_Analytics/app.py) and the FreedomCalc FIRE       *)
(* simulator (02_FreedomCalc_FIRE_Simulator/app.py).                       *)
(*                                                                         *)
(* Units.  Python floats are modelled by exact integers:                   *)
(*   - a dividend per share is a multiple of 1/64 rupee (a binary          *)
(*     fraction, which a float holds exactly, so that round(x, 2) is the   *)
(*     round-half-to-even the model computes);                             *)
(*   - a rupee amount (Gross Amount, sums, TDS) is in 1/1000 rupee;        *)
(*   - a monthly rate of return is in 1/1000 (per mille).                  *)
(* Three specifications share the module: Spec (a DiviTrack session),      *)
(* SpecFY (get_financial_year over a walk through the calendar) and        *)
(* SpecFire (one click of "Run Simulation").                               *)
(***************************************************************************)
EXTENDS Integers, Sequences, FiniteSets, TLC

VARIABLES
    \* DiviTrack session
    portfolio,            \* st.session_state.portfolio
    log,                  \* history of the user's events in this session
    failed,               \* indices of entries whose fetch raised (st.error)
    all_payouts,          \* all_payouts / df of the last run
    tds_grouping,         \* (Symbol, Financial Year) -> summed gross, TDS
    total_tds_liability,  \* the "TDS Deducted" metric
    search_mode,          \* the "Group By:" radio
    selected_year,        \* the drill-down select box
    year_tds_val,         \* the "TDS (<selected year>)" metric
    screen,               \* which branch of the page was rendered
    \* get_financial_year walk
    fy_date, fy_label, fy_prev_date, fy_prev_label,
    \* FreedomCalc
    fpc, inputs, m, corpus, future_portfolio, start_retirement_corpus,
    sim, sim_corpus, sim_path

diviVars == <<portfolio, log, failed, all_payouts, tds_grouping,
              total_tds_liability, search_mode, selected_year, year_tds_val,
              screen>>
fyVars   == <<fy_date, fy_label, fy_prev_date, fy_prev_label>>
fireVars == <<fpc, inputs, m, corpus, future_portfolio,
              start_retirement_corpus, sim, sim_corpus, sim_path>>
vars     == <<diviVars, fyVars, fireVars>>

---------------------------------------------------------------------------
(* Bounds of the model *)

\* user events (submissions, clears, other widget changes) in one session
MaxEvents == 3

\* calendar years walked from each start year by SpecFY
WalkYears == 2

\* months in a year of the simulated horizon (12 in the code)
MonthsPerYear == 2

\* years simulated after retirement (40 in the code)
years_after_retirement == 1

\* Monte Carlo paths (the slider allows 10..200)
simulations == 2

---------------------------------------------------------------------------
(* Dates *)

Date(y, mo, d) == [year |-> y, month |-> mo, day |-> d]

\* pandas Timestamp comparison a > b (both at midnight, timezone removed)
After(a, b) ==
    \/ a.year > b.year
    \/ a.year = b.year /\ a.month > b.month
    \/ a.year = b.year /\ a.month = b.month /\ a.day > b.day

\* str() of an int in 0..99, as an f-string renders it (no zero padding)
Digit(n) ==
    CASE n = 0 -> "0" [] n = 1 -> "1" [] n = 2 -> "2" [] n = 3 -> "3"
      [] n = 4 -> "4" [] n = 5 -> "5" [] n = 6 -> "6" [] n = 7 -> "7"
      [] n = 8 -> "8" [] n = 9 -> "9"

IntStr(n) == IF n < 10 THEN Digit(n) ELSE Digit(n \div 10) \o Digit(n % 10)

FiscalYearOnOrAfterMay(d) ==
    IF d.month > 4
    THEN "FY" \o IntStr(d.year % 100) \o "-" \o IntStr((d.year + 1) % 100)
    ELSE "FY" \o IntStr((d.year - 1) % 100) \o "-" \o IntStr(d.year % 100)

get_financial_year(d) ==
    IF d.month >= 4
    THEN "FY" \o IntStr(d.year % 100) \o "-" \o IntStr((d.year + 1) % 100)
    ELSE "FY" \o IntStr((d.year - 1) % 100) \o "-" \o IntStr(d.year % 100)

get_quarter(d) == "Q" \o IntStr((d.month - 1) \div 3 + 1)

---------------------------------------------------------------------------
(* DiviTrack: inputs *)

\* rows of the stock map offered by the "Search Stock Name" select box
StockMap ==
    { [name |-> "ITC Limited", symbol |-> "ITC"],
      [name |-> "Embassy Office Parks REIT", symbol |-> "EMBASSY"] }

\* index=None of the select box: nothing selected
NoSelection == [name |-> "", symbol |-> ""]

\* selected_ticker_symbol stays None (falsy) when nothing is selected
None == ""

\* (Quantity, Purchase Date) as filled into the form; date(2023, 1, 1) is
\* the form's default
FormInputs ==
    { <<100, Date(2023, 1, 1)>>,
      <<200, Date(2024, 5, 15)>> }

NoDate == Date(0, 0, 0)

\* yf.Ticker(ticker).dividends: ex-date -> dividend per share (1/64 rupee),
\* in date order
Dividends(ticker) ==
    CASE ticker = "ITC.NS" ->
           << [date |-> Date(2024, 5, 15), amount |-> 1920],    \* 30.0
              [date |-> Date(2025, 2, 10), amount |-> 1920] >>  \* 30.0
      [] ticker = "EMBASSY.NS" ->
           << [date |-> Date(2024, 3, 31), amount |-> 1600],    \* 25.0
              [date |-> Date(2024, 4, 1),  amount |-> 3] >>     \* 0.046875
      [] OTHER -> << >>

TDS_THRESHOLD == 5000

TDS_RATE_PCT == 10

CalendarMode == "Calendar Year (Jan-Dec)"

FinancialMode == "Financial Year (Apr-Mar)"

---------------------------------------------------------------------------
(* DiviTrack: the sidebar form *)

selected_ticker_symbol(user_selection) ==
    IF user_selection # NoSelection
    THEN user_selection.symbol \o ".NS"
    ELSE None

NewEntry(user_selection, qty_input, buy_date_input) ==
    [ Ticker  |-> selected_ticker_symbol(user_selection),
      Name    |-> user_selection.name,
      Qty     |-> qty_input,
      BuyDate |-> buy_date_input ]

SubmitSkipHeldTicker(pf, user_selection, qty_input, buy_date_input) ==
    IF /\ selected_ticker_symbol(user_selection) # None
       /\ \A i \in DOMAIN pf :
              pf[i].Ticker # selected_ticker_symbol(user_selection)
    THEN Append(pf, NewEntry(user_selection, qty_input, buy_date_input))
    ELSE pf

\* if submitted: if selected_ticker_symbol: portfolio.append({...})
Submit(pf, user_selection, qty_input, buy_date_input) ==
    IF selected_ticker_symbol(user_selection) # None
    THEN Append(pf, NewEntry(user_selection, qty_input, buy_date_input))
    ELSE pf

---------------------------------------------------------------------------
(* DiviTrack: the processing engine *)

\* round-half-to-even of n/d for n >= 0, d > 0
RoundHalfEven(n, d) ==
    LET q == n \div d
        r == n % d
    IN  IF 2 * r < d THEN q
        ELSE IF 2 * r > d THEN q + 1
        ELSE IF q % 2 = 0 THEN q ELSE q + 1

\* round(payout, 2): payout in 1/64 rupee, result in 1/1000 rupee
Round2(payout) == RoundHalfEven(payout * 100, 64) * 10

PayoutRecord(item, ev) ==
    [ Stock            |-> item.Name,
      Symbol           |-> item.Ticker,
      ExDate           |-> ev.date,
      FinancialYear    |-> get_financial_year(ev.date),
      CalendarYear     |-> ev.date.year,
      Quarter          |-> get_quarter(ev.date),
      DividendPerShare |-> ev.amount,
      Qty              |-> item.Qty,
      GrossAmount      |-> Round2(ev.amount * item.Qty) ]

MyDividendsFromPurchaseDay(div_history, buy_date) ==
    SelectSeq(div_history,
              LAMBDA ev : After(ev.date, buy_date) \/ ev.date = buy_date)

\* div_history[div_history.index > buy_date]
my_dividends(div_history, buy_date) ==
    SelectSeq(div_history, LAMBDA ev : After(ev.date, buy_date))

\* the body of the try block for one portfolio entry
EntryPayouts(item) ==
    LET divs == my_dividends(Dividends(item.Ticker), item.BuyDate)
    IN  [ k \in 1..Len(divs) |-> PayoutRecord(item, divs[k]) ]

RECURSIVE CollectAbortOnError(_, _, _)
CollectAbortOnError(pf, raised, i) ==
    IF i > Len(pf) \/ i \in raised THEN << >>
    ELSE EntryPayouts(pf[i]) \o CollectAbortOnError(pf, raised, i + 1)

\* the for loop over the portfolio from entry i on; an entry in raised
\* throws in its fetch, is reported by st.error and adds nothing
RECURSIVE Collect(_, _, _)
Collect(pf, raised, i) ==
    IF i > Len(pf) THEN << >>
    ELSE (IF i \in raised THEN << >> ELSE EntryPayouts(pf[i]))
         \o Collect(pf, raised, i + 1)

RECURSIVE SumGross(_)
SumGross(df) ==
    IF df = << >> THEN 0 ELSE Head(df).GrossAmount + SumGross(Tail(df))

TdsAtOrAboveThreshold(x) ==
    IF x >= TDS_THRESHOLD * 1000 THEN (x * TDS_RATE_PCT) \div 100 ELSE 0

\* lambda x: x * 0.10 if x > 5000 else 0
TdsOf(x) ==
    IF x > TDS_THRESHOLD * 1000 THEN (x * TDS_RATE_PCT) \div 100 ELSE 0

GroupKeys(df) == { <<df[i].Symbol, df[i].FinancialYear>> : i \in DOMAIN df }

GroupRows(df, key) ==
    SelectSeq(df, LAMBDA p : p.Symbol = key[1] /\ p.FinancialYear = key[2])

\* df.groupby(['Symbol', 'Financial Year'])['Gross Amount'].sum() with the
\* 'TDS Deducted' column
TdsGrouping(df) ==
    [ key \in GroupKeys(df) |->
        [ GrossAmount |-> SumGross(GroupRows(df, key)),
          TDSDeducted |-> TdsOf(SumGross(GroupRows(df, key))) ] ]

RECURSIVE SumTds(_, _)
SumTds(grouping, keys) ==
    IF keys = {} THEN 0
    ELSE LET key == CHOOSE k \in keys : TRUE
         IN  grouping[key].TDSDeducted + SumTds(grouping, keys \ {key})

\* tds_grouping['TDS Deducted'].sum()
TotalTds(grouping) == SumTds(grouping, DOMAIN grouping)

\* the options of the drill-down select box
YearOptions(df, mode) ==
    IF mode = CalendarMode
    THEN { df[i].CalendarYear : i \in DOMAIN df }
    ELSE { df[i].FinancialYear : i \in DOMAIN df }

\* filtered_df
Filtered(df, mode, year) ==
    IF mode = CalendarMode
    THEN SelectSeq(df, LAMBDA p : p.CalendarYear = year)
    ELSE SelectSeq(df, LAMBDA p : p.FinancialYear = year)

\* year_tds_val: the threshold check re-run on the filtered rows
YearTds(df, mode, year) == TotalTds(TdsGrouping(Filtered(df, mode, year)))

NoGrouping == << >>

\* one run of the script body below the sidebar, on portfolio pf
Run(pf) ==
    IF Len(pf) = 0
    THEN /\ failed' = {}
         /\ all_payouts' = << >>
         /\ tds_grouping' = NoGrouping
         /\ total_tds_liability' = 0
         /\ search_mode' = CalendarMode
         /\ selected_year' = 0
         /\ year_tds_val' = 0
         /\ screen' = "add stocks"
    ELSE \E raised \in SUBSET (1..Len(pf)) :
           LET df == Collect(pf, raised, 1)
           IN  /\ failed' = raised
               /\ all_payouts' = df
               /\ IF df = << >>
                  THEN /\ tds_grouping' = NoGrouping
                       /\ total_tds_liability' = 0
                       /\ search_mode' = CalendarMode
                       /\ selected_year' = 0
                       /\ year_tds_val' = 0
                       /\ screen' = "no dividends"
                  ELSE /\ tds_grouping' = TdsGrouping(df)
                       /\ total_tds_liability' = TotalTds(TdsGrouping(df))
                       /\ \E mode \in {CalendarMode, FinancialMode} :
                            \E year \in YearOptions(df, mode) :
                              /\ search_mode' = mode
                              /\ selected_year' = year
                              /\ year_tds_val' = YearTds(df, mode, year)
                       /\ screen' = "dashboard"

\* what the log keeps of a submission: the entry submitted, or only that no
\* ticker was selected
AddEvent(user_selection, qty_input, buy_date_input) ==
    IF user_selection = NoSelection
    THEN [ kind |-> "add", Ticker |-> None, Name |-> "", Qty |-> 0,
           BuyDate |-> NoDate ]
    ELSE [ kind    |-> "add",
           Ticker  |-> user_selection.symbol \o ".NS",
           Name    |-> user_selection.name,
           Qty     |-> qty_input,
           BuyDate |-> buy_date_input ]

ClearEvent ==
    [ kind |-> "clear", Ticker |-> None, Name |-> "", Qty |-> 0,
      BuyDate |-> NoDate ]

RerunEvent ==
    [ kind |-> "rerun", Ticker |-> None, Name |-> "", Qty |-> 0,
      BuyDate |-> NoDate ]

\* "Add Stock" is pressed: the form body, then the rest of the script
AddStock ==
    /\ Len(log) < MaxEvents
    /\ \E user_selection \in StockMap \cup {NoSelection},
          form \in FormInputs :
         /\ portfolio' = Submit(portfolio, user_selection, form[1], form[2])
         /\ log' = Append(log, AddEvent(user_selection, form[1], form[2]))
    /\ Run(portfolio')
    /\ UNCHANGED <<fyVars, fireVars>>

\* "Clear Portfolio" is pressed: the list is emptied and st.rerun() runs the
\* script again
ClearPortfolio ==
    /\ Len(log) < MaxEvents
    /\ portfolio' = << >>
    /\ log' = Append(log, ClearEvent)
    /\ Run(portfolio')
    /\ UNCHANGED <<fyVars, fireVars>>

\* any other widget is touched (tax slab, radio, select box): the script
\* reruns on the same portfolio and fetches again
Rerun ==
    /\ Len(log) < MaxEvents
    /\ UNCHANGED portfolio
    /\ log' = Append(log, RerunEvent)
    /\ Run(portfolio)
    /\ UNCHANGED <<fyVars, fireVars>>

DiviInit ==
    /\ portfolio = << >>
    /\ log = << >>
    /\ failed = {}
    /\ all_payouts = << >>
    /\ tds_grouping = NoGrouping
    /\ total_tds_liability = 0
    /\ search_mode = CalendarMode
    /\ selected_year = 0
    /\ year_tds_val = 0
    /\ screen = "add stocks"

---------------------------------------------------------------------------
(* get_financial_year over the calendar *)

IsLeap(y) == (y % 4 = 0 /\ y % 100 # 0) \/ y % 400 = 0

DaysInMonth(y, mo) ==
    IF mo = 2 THEN (IF IsLeap(y) THEN 29 ELSE 28)
    ELSE IF mo \in {4, 6, 9, 11} THEN 30 ELSE 31

NextDay(d) ==
    IF d.day < DaysInMonth(d.year, d.month) THEN Date(d.year, d.month, d.day + 1)
    ELSE IF d.month < 12 THEN Date(d.year, d.month + 1, 1)
    ELSE Date(d.year + 1, 1, 1)

WalkStartYears == {1998, 2008, 2023}

WalkSpan == UNION { s..(s + WalkYears - 1) : s \in WalkStartYears }

FYInit ==
    /\ fy_date \in { Date(y, 1, 1) : y \in WalkStartYears }
    /\ fy_label = ""
    /\ fy_prev_date = NoDate
    /\ fy_prev_label = ""

\* the label of the first date is computed
FYLabel ==
    /\ fy_label = ""
    /\ fy_label' = get_financial_year(fy_date)
    /\ UNCHANGED <<fy_date, fy_prev_date, fy_prev_label>>
    /\ UNCHANGED <<diviVars, fireVars>>

\* the label of the following calendar day is computed
FYNextDay ==
    /\ fy_label # ""
    /\ NextDay(fy_date).year \in WalkSpan
    /\ fy_prev_date' = fy_date
    /\ fy_prev_label' = fy_label
    /\ fy_date' = NextDay(fy_date)
    /\ fy_label' = get_financial_year(fy_date')
    /\ UNCHANGED <<diviVars, fireVars>>

FYIdle ==
    /\ fy_date = NoDate
    /\ fy_label = ""
    /\ fy_prev_date = NoDate
    /\ fy_prev_label = ""

---------------------------------------------------------------------------
(* FreedomCalc: one click of "Run Simulation" *)

\* (1 + expected_return) / (1 + inflation_rate) to the power 1/12, minus 1,
\* in per mille: the sliders (5..20 % return, 3..10 % inflation) keep it
\* between -3.9 and 12.8
RealRatesMonthly == {-3, 12}

\* np.random.normal(real_rate_monthly, monthly_vol) in per mille: the normal
\* distribution has unbounded support, a draw below -1000 loses more than
\* the whole corpus
RandomReturns == {-1500, -300, 30}

CurrentAges == {30, 31}

RetirementAges == {30, 31}

InputSets ==
    [ current_age          : CurrentAges,
      retirement_age       : RetirementAges,
      current_savings      : {0, 1000},
      monthly_contribution : {0, 100},
      monthly_expense      : {0, 400, 2000},
      real_rate_monthly    : RealRatesMonthly ]

NoInputs ==
    [ current_age |-> 0, retirement_age |-> 0, current_savings |-> 0,
      monthly_contribution |-> 0, monthly_expense |-> 0,
      real_rate_monthly |-> 0 ]

years_to_invest == inputs.retirement_age - inputs.current_age

months_to_invest == years_to_invest * MonthsPerYear

total_months == (years_to_invest + years_after_retirement) * MonthsPerYear

\* corpus * (1 + rate), rate in per mille
Grow(c, rate) == (c * (1000 + rate)) \div 1000

\* if corpus < 0: corpus = 0
Floor0(c) == IF c < 0 THEN 0 ELSE c

FireInit ==
    /\ fpc = "idle"
    /\ inputs \in InputSets
    /\ m = 0
    /\ corpus = 0
    /\ future_portfolio = << >>
    /\ start_retirement_corpus = 0
    /\ sim = 0
    /\ sim_corpus = 0
    /\ sim_path = << >>

FireIdle ==
    /\ fpc = "idle"
    /\ inputs = NoInputs
    /\ m = 0
    /\ corpus = 0
    /\ future_portfolio = << >>
    /\ start_retirement_corpus = 0
    /\ sim = 0
    /\ sim_corpus = 0
    /\ sim_path = << >>

\* the button is pressed: future_portfolio = [], corpus = current_savings
RunSimulation ==
    /\ fpc = "idle"
    /\ fpc' = "growth"
    /\ corpus' = inputs.current_savings
    /\ future_portfolio' = << >>
    /\ m' = 0
    /\ UNCHANGED <<inputs, start_retirement_corpus, sim, sim_corpus, sim_path>>
    /\ UNCHANGED <<diviVars, fyVars>>

\* Growth Phase, one month
GrowthStep ==
    /\ fpc = "growth"
    /\ m < months_to_invest
    /\ corpus' = Grow(corpus, inputs.real_rate_monthly)
                 + inputs.monthly_contribution
    /\ future_portfolio' = Append(future_portfolio, corpus')
    /\ m' = m + 1
    /\ UNCHANGED <<fpc, inputs, start_retirement_corpus, sim, sim_corpus,
                   sim_path>>
    /\ UNCHANGED <<diviVars, fyVars>>

\* start_retirement_corpus = corpus
GrowthDone ==
    /\ fpc = "growth"
    /\ ~(m < months_to_invest)
    /\ start_retirement_corpus' = corpus
    /\ fpc' = "withdrawal"
    /\ m' = 0
    /\ UNCHANGED <<inputs, corpus, future_portfolio, sim, sim_corpus, sim_path>>
    /\ UNCHANGED <<diviVars, fyVars>>

\* corpus = corpus * (1 + real_rate_monthly) - monthly_expense, not below 0
WithdrawalValue(c) ==
    Floor0(Grow(c, inputs.real_rate_monthly) - inputs.monthly_expense)

\* Withdrawal Phase, one month
WithdrawalStep ==
    /\ fpc = "withdrawal"
    /\ m < years_after_retirement * MonthsPerYear
    /\ corpus' = WithdrawalValue(corpus)
    /\ future_portfolio' = Append(future_portfolio, corpus')
    /\ m' = m + 1
    /\ UNCHANGED <<fpc, inputs, start_retirement_corpus, sim, sim_corpus,
                   sim_path>>
    /\ UNCHANGED <<diviVars, fyVars>>

\* the Monte Carlo loop is entered (or skipped when it has no iteration)
WithdrawalDone ==
    /\ fpc = "withdrawal"
    /\ ~(m < years_after_retirement * MonthsPerYear)
    /\ fpc' = "montecarlo"
    /\ sim' = 0
    /\ sim_corpus' = inputs.current_savings
    /\ sim_path' = << >>
    /\ m' = 0
    /\ UNCHANGED <<inputs, corpus, future_portfolio, start_retirement_corpus>>
    /\ UNCHANGED <<diviVars, fyVars>>

SimValueClampedWhenRetired(c, month, random_return) ==
    IF month < months_to_invest
    THEN Grow(c, random_return) + inputs.monthly_contribution
    ELSE Floor0(Grow(c, random_return) - inputs.monthly_expense)

\* one month of a Monte Carlo path
SimValue(c, month, random_return) ==
    Floor0(IF month < months_to_invest
           THEN Grow(c, random_return) + inputs.monthly_contribution
           ELSE Grow(c, random_return) - inputs.monthly_expense)

SimStep ==
    /\ fpc = "montecarlo"
    /\ sim < simulations
    /\ m < total_months
    /\ \E random_return \in RandomReturns :
         sim_corpus' = SimValue(sim_corpus, m, random_return)
    /\ sim_path' = Append(sim_path, sim_corpus')
    /\ m' = m + 1
    /\ UNCHANGED <<fpc, inputs, corpus, future_portfolio,
                   start_retirement_corpus, sim>>
    /\ UNCHANGED <<diviVars, fyVars>>

\* sim_data.append(sim_path) and the next path starts
SimPathDone ==
    /\ fpc = "montecarlo"
    /\ sim < simulations
    /\ ~(m < total_months)
    /\ sim' = sim + 1
    /\ sim_corpus' = inputs.current_savings
    /\ sim_path' = IF sim + 1 < simulations THEN << >> ELSE sim_path
    /\ m' = IF sim + 1 < simulations THEN 0 ELSE m
    /\ fpc' = IF sim + 1 < simulations THEN "montecarlo" ELSE "done"
    /\ UNCHANGED <<inputs, corpus, future_portfolio, start_retirement_corpus>>
    /\ UNCHANGED <<diviVars, fyVars>>

---------------------------------------------------------------------------
(* Specifications *)

Init == DiviInit /\ FYIdle /\ FireIdle

Next == AddStock \/ ClearPortfolio \/ Rerun

Spec == Init /\ [][Next]_vars

InitFY == DiviInit /\ FYInit /\ FireIdle

NextFY == FYLabel \/ FYNextDay

SpecFY == InitFY /\ [][NextFY]_vars

InitFire == DiviInit /\ FYIdle /\ FireInit

NextFire ==
    \/ RunSimulation
    \/ GrowthStep
    \/ GrowthDone
    \/ WithdrawalStep
    \/ WithdrawalDone
    \/ SimStep
    \/ SimPathDone

SpecFire == InitFire /\ [][NextFire]_vars

---------------------------------------------------------------------------
(* Properties of the DiviTrack session *)

RECURSIVE SumOverRows(_, _)
SumOverRows(df, rows) ==
    IF rows = {} THEN 0
    ELSE LET i == CHOOSE k \in rows : TRUE
         IN  df[i].GrossAmount + SumOverRows(df, rows \ {i})

\* the rows of df that belong to company symbol and financial year fy
RowsOf(df, symbol, fy) ==
    { i \in DOMAIN df : df[i].Symbol = symbol /\ df[i].FinancialYear = fy }

\* the summed gross amount of (symbol, fy) over all collected payouts
FullYearTotal(symbol, fy) ==
    SumOverRows(all_payouts, RowsOf(all_payouts, symbol, fy))

Threshold == TDS_THRESHOLD * 1000

SymbolsPaid == { all_payouts[i].Symbol : i \in DOMAIN all_payouts }

YearsPaid == { all_payouts[i].FinancialYear : i \in DOMAIN all_payouts }

GroupsPaid ==
    { g \in SymbolsPaid \X YearsPaid : RowsOf(all_payouts, g[1], g[2]) # {} }

RECURSIVE SumOfGroupTds(_)
SumOfGroupTds(groups) ==
    IF groups = {} THEN 0
    ELSE LET g == CHOOSE k \in groups : TRUE
         IN  tds_grouping[g].TDSDeducted + SumOfGroupTds(groups \ {g})

\* C1: for every (Symbol, Financial Year) group of the collected payouts the
\* TDS of the group is 10% of the group's summed gross amount if and only if
\* that sum strictly exceeds 5000, and 0 otherwise (0 at exactly 5000); the
\* sum runs over every row of the symbol, whichever portfolio entry it came
\* from; the "TDS Deducted" metric is the sum of the group TDS values.
C1_TdsPerSymbolAndFinancialYear ==
    screen = "dashboard" =>
        /\ DOMAIN tds_grouping = GroupsPaid
        /\ \A g \in GroupsPaid :
             LET total == FullYearTotal(g[1], g[2])
                 tds   == tds_grouping[g].TDSDeducted
             IN  /\ tds_grouping[g].GrossAmount = total
                 /\ total > Threshold => tds * 100 = total * 10 /\ tds > 0
                 /\ total <= Threshold => tds = 0
        /\ total_tds_liability = SumOfGroupTds(GroupsPaid)

\* a group that two entries of one symbol bring to exactly 5000 (no TDS)
\* beside a group above 5000 (TDS withheld)
C1_Witness ==
    /\ screen = "dashboard"
    /\ \E g \in DOMAIN tds_grouping :
         /\ tds_grouping[g].GrossAmount = Threshold
         /\ tds_grouping[g].TDSDeducted = 0
         /\ Cardinality({ all_payouts[i].Qty :
                            i \in RowsOf(all_payouts, g[1], g[2]) }) = 1
         /\ Cardinality(RowsOf(all_payouts, g[1], g[2])) = 2
    /\ \E g \in DOMAIN tds_grouping : tds_grouping[g].TDSDeducted = 600000
    /\ total_tds_liability = 600000

\* the withholding of one payout under the full-financial-year decision
RowTds(p) ==
    IF FullYearTotal(p.Symbol, p.FinancialYear) > Threshold
    THEN (p.GrossAmount * TDS_RATE_PCT) \div 100
    ELSE 0

RECURSIVE SumRowTds(_)
SumRowTds(df) ==
    IF df = << >> THEN 0 ELSE RowTds(Head(df)) + SumRowTds(Tail(df))

\* C2: for every drill-down selection the TDS shown equals the withholding
\* that the full-financial-year threshold decision assigns to the payouts
\* inside the selection.
C2_DrillDownTdsIsWindowIndependent ==
    screen = "dashboard" =>
        year_tds_val =
            SumRowTds(Filtered(all_payouts, search_mode, selected_year))

RECURSIVE PayoutsOf(_)
PayoutsOf(entries) ==
    IF entries = << >> THEN << >>
    ELSE EntryPayouts(Head(entries)) \o PayoutsOf(Tail(entries))

RECURSIVE Without(_, _, _)
Without(pf, raised, i) ==
    IF i > Len(pf) THEN << >>
    ELSE (IF i \in raised THEN << >> ELSE << pf[i] >>)
         \o Without(pf, raised, i + 1)

\* C4: an entry whose fetch raises contributes no payouts, and the payouts
\* collected are exactly those of the portfolio without the failing entries:
\* the loop goes on with the entries after a failure.
C4_SkipOnError ==
    /\ failed \subseteq DOMAIN portfolio
    /\ all_payouts = PayoutsOf(Without(portfolio, failed, 1))

\* an entry that would have paid fails, and a later entry still pays
C4_Witness ==
    \E i \in failed : \E j \in DOMAIN portfolio \ failed :
        /\ i < j
        /\ EntryPayouts(portfolio[i]) # << >>
        /\ EntryPayouts(portfolio[j]) # << >>
        /\ all_payouts # << >>

Fetched == DOMAIN portfolio \ failed

\* the payout records of dividend event ev for ticker and quantity
RecordsOf(ticker, qty, ev) ==
    { i \in DOMAIN all_payouts :
        /\ all_payouts[i].Symbol = ticker
        /\ all_payouts[i].Qty = qty
        /\ all_payouts[i].ExDate = ev.date
        /\ all_payouts[i].DividendPerShare = ev.amount }

\* the fetched entries of ticker and quantity bought strictly before ev
HoldersOf(ticker, qty, ev) ==
    { j \in Fetched :
        /\ portfolio[j].Ticker = ticker
        /\ portfolio[j].Qty = qty
        /\ After(ev.date, portfolio[j].BuyDate) }

Events(ticker) == { Dividends(ticker)[k] : k \in DOMAIN Dividends(ticker) }

\* one record per (fetched entry, dividend event strictly after its
\* purchase date), and no other record
CountedIffAfterPurchase ==
    /\ \A j \in Fetched : \A ev \in Events(portfolio[j].Ticker) :
         Cardinality(RecordsOf(portfolio[j].Ticker, portfolio[j].Qty, ev))
           = Cardinality(HoldersOf(portfolio[j].Ticker, portfolio[j].Qty, ev))
    /\ \A i \in DOMAIN all_payouts :
         \E j \in Fetched : \E ev \in Events(portfolio[j].Ticker) :
            /\ i \in RecordsOf(portfolio[j].Ticker, portfolio[j].Qty, ev)
            /\ After(ev.date, portfolio[j].BuyDate)

\* C5 as stated: a dividend event of a fetched entry is counted if and only
\* if its ex-date is strictly later than the purchase date, each counted
\* event gives one record, and the record's gross amount is the dividend
\* per share multiplied by the quantity.
C5_GrossIsExactProduct ==
    /\ CountedIffAfterPurchase
    /\ \A i \in DOMAIN all_payouts :
         all_payouts[i].GrossAmount * 64
           = all_payouts[i].DividendPerShare * all_payouts[i].Qty * 1000

\* the gross amount is a whole number of paise (1/100 rupee) at most half a
\* paisa away from dividend per share times quantity
NearestPaisa(gross, dps, qty) ==
    /\ gross % 10 = 0
    /\ 2 * (gross * 64 - dps * qty * 1000) <= 10 * 64
    /\ 2 * (dps * qty * 1000 - gross * 64) <= 10 * 64

\* C5, amended: for every entry whose fetch did not raise, a dividend event
\* is counted if and only if its ex-date is strictly later than the purchase
\* date, each counted event gives one record, and the record's gross amount
\* is the dividend per share multiplied by the quantity, rounded to two
\* decimals.
C5_CountedAfterPurchaseGrossRounded ==
    /\ CountedIffAfterPurchase
    /\ \A i \in DOMAIN all_payouts :
         NearestPaisa(all_payouts[i].GrossAmount,
                      all_payouts[i].DividendPerShare, all_payouts[i].Qty)

\* a fetched entry with a dividend on its purchase date (not counted) and a
\* later one (counted), beside a record whose gross amount was rounded
C5_Witness ==
    /\ \E j \in Fetched : \E ev, later \in Events(portfolio[j].Ticker) :
         /\ ev.date = portfolio[j].BuyDate
         /\ RecordsOf(portfolio[j].Ticker, portfolio[j].Qty, ev) = {}
         /\ RecordsOf(portfolio[j].Ticker, portfolio[j].Qty, later) # {}
    /\ \E i \in DOMAIN all_payouts :
         all_payouts[i].GrossAmount * 64
           # all_payouts[i].DividendPerShare * all_payouts[i].Qty * 1000

\* the position of the most recent clear in the log (0 if none)
LastClear(events) ==
    IF \E k \in DOMAIN events : events[k].kind = "clear"
    THEN CHOOSE k \in DOMAIN events :
           /\ events[k].kind = "clear"
           /\ \A l \in DOMAIN events : events[l].kind = "clear" => l <= k
    ELSE 0

\* the entries submitted with a selected ticker, in submission order
RECURSIVE Submitted(_)
Submitted(events) ==
    IF events = << >> THEN << >>
    ELSE (IF Head(events).kind = "add" /\ Head(events).Ticker # None
          THEN << [ Ticker  |-> Head(events).Ticker,
                    Name    |-> Head(events).Name,
                    Qty     |-> Head(events).Qty,
                    BuyDate |-> Head(events).BuyDate ] >>
          ELSE << >>)
         \o Submitted(Tail(events))

\* C6: the session portfolio is the list, in submission order and with
\* duplicates kept, of the entries submitted with a selected ticker since
\* the most recent clear (or since the session started); a submission
\* without a ticker leaves it unchanged and a clear leaves it empty.
C6_PortfolioIsSubmissionsSinceClear ==
    portfolio = Submitted(SubSeq(log, LastClear(log) + 1, Len(log)))

\* an entry is submitted, the portfolio is cleared, an entry is submitted
C6_Witness ==
    /\ Len(log) = 3
    /\ log[1].kind = "add" /\ log[1].Ticker # None
    /\ log[2].kind = "clear"
    /\ log[3].kind = "add" /\ log[3].Ticker # None
    /\ Len(portfolio) = 1

---------------------------------------------------------------------------
(* Properties of get_financial_year *)

FiscalLabel(startYear) ==
    "FY" \o IntStr(startYear % 100) \o "-" \o IntStr((startYear + 1) % 100)

\* C3: a date in April..December of year Y is labelled
\* FY<Y mod 100>-<(Y+1) mod 100>, a date in January..March of year Y is
\* labelled FY<(Y-1) mod 100>-<Y mod 100>; so consecutive days share their
\* label except 31 March and 1 April, whose labels differ.
C3_FinancialYearBuckets ==
    fy_label # "" =>
        /\ fy_date.month \in 4..12 => fy_label = FiscalLabel(fy_date.year)
        /\ fy_date.month \in 1..3 => fy_label = FiscalLabel(fy_date.year - 1)
        /\ fy_prev_date # NoDate =>
             IF fy_prev_date.month = 3 /\ fy_prev_date.day = 31
             THEN /\ fy_date.month = 4 /\ fy_date.day = 1
                  /\ fy_label # fy_prev_label
             ELSE fy_label = fy_prev_label

\* the walk steps from 31 March 1999 to 1 April 1999
C3_Witness ==
    /\ fy_prev_date = Date(1999, 3, 31)
    /\ fy_prev_label = "FY98-99"
    /\ fy_date = Date(1999, 4, 1)
    /\ fy_label = "FY99-0"

---------------------------------------------------------------------------
(* Properties of the FreedomCalc paths *)

NonNegative(path) == \A i \in DOMAIN path : path[i] >= 0

\* month index i - 1 is in the withdrawal phase
ZeroIsAbsorbing(path) ==
    \A i, j \in DOMAIN path :
        (i - 1 >= months_to_invest /\ i < j /\ path[i] = 0) => path[j] = 0

\* C7: every recorded portfolio value of the "Average Scenario" path and of
\* each Monte Carlo path is non-negative, and once a path is 0 at a month of
\* the withdrawal phase it is 0 at every later month.
C7_PathsNonNegativeZeroAbsorbing ==
    /\ NonNegative(future_portfolio)
    /\ NonNegative(sim_path)
    /\ ZeroIsAbsorbing(future_portfolio)
    /\ ZeroIsAbsorbing(sim_path)

\* both paths started above 0, ran out in the withdrawal phase and stayed
\* at 0; the Monte Carlo path had a month that lost more than the corpus
C7_Witness ==
    /\ fpc = "done"
    /\ months_to_invest > 0
    /\ Len(future_portfolio) >= 2 /\ Len(sim_path) >= 2
    /\ future_portfolio[1] > 0
    /\ future_portfolio[Len(future_portfolio) - 1] = 0
    /\ future_portfolio[Len(future_portfolio)] = 0
    /\ sim_path[1] > 0
    /\ \E i \in DOMAIN sim_path :
         /\ i <= months_to_invest
         /\ sim_path[i] = 0
    /\ sim_path[Len(sim_path) - 1] = 0
    /\ sim_path[Len(sim_path)] = 0

===========================================================================
